---- MODULE Spec2Model ----
(***************************************************************************)
(* The editor store of codecanvas (packages/editor-frontend/src/core/      *)
(* store.ts): the element table, the root order, the selection, the        *)
(* patch-based undo/redo stacks and the interaction (gesture) flags, with  *)
(* one action per store operation.  Immer's produceWithPatches and         *)
(* applyPatches are modelled by what they do to the three history-tracked  *)
(* slices: elements, selectedElementId and rootElementOrder.               *)
(***************************************************************************)
EXTENDS Integers, Sequences, FiniteSets, TLC

(* ------------------------------ bounds -------------------------------- *)
\* number of ids generateId hands out in a run
MaxIds == 3
\* number of state-changing store operations in a run
MaxSteps == 4
\* number of consecutive recorded calls followed from an empty history
MaxCalls == 3
\* number of updateElementStyle calls in one gesture
MaxGesture == 3

(* ----------------------------- constants ------------------------------ *)
\* null (a parentId, a selection or a parent argument that is null)
Null == 0
\* an array hole / undefined array entry
Hole == -1
\* an omitted targetIndex argument (undefined)
NoIndex == -100

\* the ids generateId hands out; an id names no element before it is
\* handed out and after its element is deleted
Ids == 1..MaxIds
IdArgs == Ids
ParentArgs == IdArgs \cup {Null}
TargetIndexArgs == {NoIndex, 0}
\* the names handed to updateElementName
Names == {"Box"}
DefaultName == "Div"
StyleKeys == {"left", "top"}
DefaultStyle == [k \in StyleKeys |-> 0]
\* the partial styles handed to updateElementStyle
StyleArgs == {[left |-> 1], [left |-> 2]}
Positions == {"before", "after"}

(* ----------------------- JavaScript array methods ---------------------- *)
Min(a, b) == IF a < b THEN a ELSE b
Max(a, b) == IF a > b THEN a ELSE b

\* Array.prototype.filter(y => y !== x): holes are skipped by filter
Filter(arr, x) == SelectSeq(arr, LAMBDA y : y # x /\ y # Hole)

\* Array.prototype.indexOf: 0-based index of the first occurrence, or -1
IndexOf(arr, x) ==
  IF \E i \in 1..Len(arr) : arr[i] = x
  THEN (CHOOSE i \in 1..Len(arr) : arr[i] = x /\ \A j \in 1..(i-1) : arr[j] # x) - 1
  ELSE -1

\* Array.prototype.includes
Includes(arr, x) == \E i \in 1..Len(arr) : arr[i] = x

\* the start index of splice, relative to the length
RelativeStart(len, start) ==
  IF start < 0 THEN Max(len + start, 0) ELSE Min(start, len)

\* arr.splice(start, 0, x)
SpliceInsert(arr, start, x) ==
  LET k == RelativeStart(Len(arr), start)
  IN SubSeq(arr, 1, k) \o <<x>> \o SubSeq(arr, k + 1, Len(arr))

\* arr.splice(start, 1)
SpliceRemove(arr, start) ==
  LET k == RelativeStart(Len(arr), start)
  IN IF k >= Len(arr) THEN arr
     ELSE SubSeq(arr, 1, k) \o SubSeq(arr, k + 2, Len(arr))

\* arr[idx] = v, for idx >= 0: the array grows, with holes, when idx >= length
ArraySet(arr, idx, v) ==
  [i \in 1..Max(Len(arr), idx + 1) |->
     IF i = idx + 1 THEN v ELSE IF i <= Len(arr) THEN arr[i] ELSE Hole]

\* if (targetIndex !== undefined && targetIndex !== null) splice else push
InsertAt(arr, targetIndex, x) ==
  IF targetIndex # NoIndex THEN SpliceInsert(arr, targetIndex, x)
  ELSE Append(arr, x)

(* --------------------------- element table ---------------------------- *)
\* { ...element, parentId: parentId, children: [] }
NewElement(element, parentId) ==
  [name |-> element.name, style |-> element.style,
   parentId |-> parentId, children |-> <<>>]

\* the element createDefaultDiv passes to addElement
DefaultElement ==
  [name |-> DefaultName, style |-> DefaultStyle, parentId |-> Null, children |-> <<>>]

Live(els) == DOMAIN els

\* state.elements[id] = el
PutElement(els, id, el) ==
  [k \in (DOMAIN els) \cup {id} |-> IF k = id THEN el ELSE els[k]]

\* delete state.elements[id], for every id in ids
DropElements(els, ids) == [k \in (DOMAIN els) \ ids |-> els[k]]

\* { ...newStyle, ...element.style }: the old value of a key wins
MergeStyleOldWins(style, newStyle) ==
  [k \in (DOMAIN style) \cup (DOMAIN newStyle) |->
     IF k \in DOMAIN style THEN style[k] ELSE newStyle[k]]

\* { ...element.style, ...newStyle }
MergeStyle(style, newStyle) ==
  [k \in (DOMAIN style) \cup (DOMAIN newStyle) |->
     IF k \in DOMAIN newStyle THEN newStyle[k] ELSE style[k]]

(* ------------------- getAllDescendantIds / isAncestor ------------------ *)
RECURSIVE ConcatFrom(_, _)
\* descendantIds.concat(...) over the results of the children, in order
ConcatFrom(seqs, i) ==
  IF i > Len(seqs) THEN <<>> ELSE seqs[i] \o ConcatFrom(seqs, i + 1)

RECURSIVE DescendantWalk(_, _, _)
\* The depth-first walk over children.  onPath holds the ids of the calls
\* still open: meeting one of them again means the recursion never returns
\* (diverges), which JavaScript ends with a RangeError.
DescendantWalk(elementId, els, onPath) ==
  IF elementId \notin DOMAIN els THEN [diverges |-> FALSE, ids |-> <<>>]
  ELSE IF els[elementId].children = <<>> THEN [diverges |-> FALSE, ids |-> <<>>]
  ELSE IF elementId \in onPath THEN [diverges |-> TRUE, ids |-> <<>>]
  ELSE LET ch == els[elementId].children
           sub == [i \in 1..Len(ch) |->
                     DescendantWalk(ch[i], els, onPath \cup {elementId})]
       IN [diverges |-> \E i \in 1..Len(ch) : sub[i].diverges,
           ids |-> ch \o ConcatFrom([i \in 1..Len(ch) |-> sub[i].ids], 1)]

getAllDescendantIds(elementId, els) == DescendantWalk(elementId, els, {})

RECURSIVE AncestorWalk(_, _, _, _)
\* The walk up the parentId links: "true", "false", or "diverges" when the
\* links loop without meeting potentialAncestorId.
AncestorWalk(elementId, potentialAncestorId, els, seen) ==
  IF elementId \notin DOMAIN els THEN "false"
  ELSE IF els[elementId].parentId = Null THEN "false"
  ELSE IF els[elementId].parentId = potentialAncestorId THEN "true"
  ELSE IF elementId \in seen THEN "diverges"
  ELSE AncestorWalk(els[elementId].parentId, potentialAncestorId, els,
                    seen \cup {elementId})

isAncestor(elementId, potentialAncestorId, els) ==
  AncestorWalk(elementId, potentialAncestorId, els, {})

(* ------------------------------ patches ------------------------------- *)
\* The three slices that the recipes change and that undo/redo restore.
Doc(els, sel, root) ==
  [elements |-> els, selectedElementId |-> sel, rootElementOrder |-> root]

\* An Immer patch {op, path, value}.  A path is one of
\*   <<"elements">>, <<"elements", id>>, <<"elements", id, field>>,
\*   <<"elements", id, "children", index>>, <<"rootElementOrder">>,
\*   <<"rootElementOrder", index>>, <<"selectedElementId">>;
\* a value is wrapped by its kind.
Patch(op, path, value) == [op |-> op, path |-> path, value |-> value]
NoValue == [none |-> TRUE]
IdValue(x) == [id |-> x]
SeqValue(s) == [seq |-> s]

\* generateArrayPatches without the inverse removes of the appended indices
ArrayPatchesNoRemove(basePath, base, copy) ==
  LET changed == SelectSeq([i \in 1..Len(base) |-> i],
                           LAMBDA i : copy[i] # base[i])
      grown == Len(copy) - Len(base)
  IN [patches |->
        [j \in 1..Len(changed) |->
           Patch("replace", basePath \o <<changed[j] - 1>>, IdValue(copy[changed[j]]))]
        \o [j \in 1..grown |->
           Patch("add", basePath \o <<Len(base) + j - 1>>, IdValue(copy[Len(base) + j]))],
      inversePatches |->
        [j \in 1..Len(changed) |->
           Patch("replace", basePath \o <<changed[j] - 1>>, IdValue(base[changed[j]]))]]

\* The patches Immer generates for a drafted array that was changed in place
\* and did not shrink (generateArrayPatches): a replace for every index of
\* the base whose entry differs, an add for every appended index; inversely
\* the replaces with the base entries, then a remove for every appended
\* index from the last down.
ArrayPatches(basePath, base, copy) ==
  LET changed == SelectSeq([i \in 1..Len(base) |-> i],
                           LAMBDA i : copy[i] # base[i])
      grown == Len(copy) - Len(base)
  IN [patches |->
        [j \in 1..Len(changed) |->
           Patch("replace", basePath \o <<changed[j] - 1>>, IdValue(copy[changed[j]]))]
        \o [j \in 1..grown |->
           Patch("add", basePath \o <<Len(base) + j - 1>>, IdValue(copy[Len(base) + j]))],
      inversePatches |->
        [j \in 1..Len(changed) |->
           Patch("replace", basePath \o <<changed[j] - 1>>, IdValue(base[changed[j]]))]
        \o [j \in 1..grown |->
           Patch("remove", basePath \o <<Len(copy) - j>>, NoValue)]]

\* applyPatches on an array: add is splice(key, 0, value), replace is
\* base[key] = value, remove is splice(key, 1)
ApplyToArray(arr, op, key, value) ==
  CASE op = "add" -> SpliceInsert(arr, key, value)
    [] op = "replace" -> ArraySet(arr, key, value)
    [] op = "remove" -> SpliceRemove(arr, key)

\* applyPatches, one patch: the path is resolved from the root of the state
\* and the call throws (ok = FALSE) when an element on the path is missing.
ApplyPatch(d, p) ==
  LET path == p.path
      n == Len(path)
      els == d.elements
  IN IF path[1] = "selectedElementId"
     THEN [ok |-> TRUE, doc |-> [d EXCEPT !.selectedElementId = p.value.id]]
     ELSE IF path[1] = "rootElementOrder"
     THEN IF n = 1
          THEN [ok |-> TRUE, doc |-> [d EXCEPT !.rootElementOrder = p.value.seq]]
          ELSE [ok |-> TRUE,
                doc |-> [d EXCEPT !.rootElementOrder =
                           ApplyToArray(@, p.op, path[2],
                                        IF p.op = "remove" THEN Hole ELSE p.value.id)]]
     ELSE \* path[1] = "elements"
       IF n = 1
       THEN [ok |-> TRUE, doc |-> [d EXCEPT !.elements = p.value.elems]]
       ELSE IF n = 2
       THEN [ok |-> TRUE,
             doc |-> [d EXCEPT !.elements =
                        IF p.op = "remove" THEN DropElements(els, {path[2]})
                        ELSE PutElement(els, path[2], p.value.elem)]]
       ELSE IF path[2] \notin DOMAIN els
       THEN [ok |-> FALSE, doc |-> d]
       ELSE IF n = 3
       THEN [ok |-> TRUE,
             doc |-> [d EXCEPT !.elements[path[2]] =
                        CASE path[3] = "name" -> [@ EXCEPT !.name = p.value.str]
                          [] path[3] = "style" -> [@ EXCEPT !.style = p.value.style]
                          [] path[3] = "parentId" -> [@ EXCEPT !.parentId = p.value.id]
                          [] path[3] = "children" -> [@ EXCEPT !.children = p.value.seq]]]
       ELSE [ok |-> TRUE,
             doc |-> [d EXCEPT !.elements[path[2]].children =
                        ApplyToArray(@, p.op, path[4],
                                     IF p.op = "remove" THEN Hole ELSE p.value.id)]]

RECURSIVE ApplyFrom(_, _, _)
ApplyFrom(d, patches, i) ==
  IF i > Len(patches) THEN [ok |-> TRUE, doc |-> d]
  ELSE LET r == ApplyPatch(d, patches[i])
       IN IF r.ok THEN ApplyFrom(r.doc, patches, i + 1)
          ELSE [ok |-> FALSE, doc |-> d]

\* applyPatches(get(), patches): all the patches in order, or a throw that
\* leaves nothing applied
applyPatches(d, patches) ==
  LET r == ApplyFrom(d, patches, 1)
  IN IF r.ok THEN r ELSE [ok |-> FALSE, doc |-> d]

(* ------------------------------- state -------------------------------- *)
VARIABLES
  elements,             \* Record<ElementId, DesignElement>
  selectedElementId,    \* ElementId | null
  rootElementOrder,     \* ElementId[]
  collapsedLayers,      \* Set<ElementId>
  undoStack,            \* HistoryEntry[]
  redoStack,            \* HistoryEntry[]
  canUndo,
  canRedo,
  ignoreHistory,        \* _ignoreHistory
  isInteractionActive,
  interactionSnapshot,  \* the snapshot, or NoSnapshot for null
  elementsReplaced,     \* state.elements is no longer the object in the snapshot
  rootReplaced,         \* state.rootElementOrder is no longer the array in the snapshot
  nextId,               \* the counter of generateId
  steps                 \* the number of state-changing operations so far

storeVars == <<elements, selectedElementId, rootElementOrder, collapsedLayers,
               undoStack, redoStack, canUndo, canRedo, ignoreHistory,
               isInteractionActive, interactionSnapshot, elementsReplaced,
               rootReplaced>>
vars == <<storeVars, nextId, steps>>

NoSnapshot == [none |-> TRUE]
NoElements == [k \in {} |-> 0]

\* get(): the store as one value
Store ==
  [elements |-> elements,
   selectedElementId |-> selectedElementId,
   rootElementOrder |-> rootElementOrder,
   collapsedLayers |-> collapsedLayers,
   undoStack |-> undoStack,
   redoStack |-> redoStack,
   canUndo |-> canUndo,
   canRedo |-> canRedo,
   ignoreHistory |-> ignoreHistory,
   isInteractionActive |-> isInteractionActive,
   interactionSnapshot |-> interactionSnapshot,
   elementsReplaced |-> elementsReplaced,
   rootReplaced |-> rootReplaced]

\* the store after a call
SetStore(S) ==
  /\ elements' = S.elements
  /\ selectedElementId' = S.selectedElementId
  /\ rootElementOrder' = S.rootElementOrder
  /\ collapsedLayers' = S.collapsedLayers
  /\ undoStack' = S.undoStack
  /\ redoStack' = S.redoStack
  /\ canUndo' = S.canUndo
  /\ canRedo' = S.canRedo
  /\ ignoreHistory' = S.ignoreHistory
  /\ isInteractionActive' = S.isInteractionActive
  /\ interactionSnapshot' = S.interactionSnapshot
  /\ elementsReplaced' = S.elementsReplaced
  /\ rootReplaced' = S.rootReplaced

DocOf(S) == Doc(S.elements, S.selectedElementId, S.rootElementOrder)

Init ==
  /\ elements = NoElements
  /\ selectedElementId = Null
  /\ rootElementOrder = <<>>
  /\ collapsedLayers = {}
  /\ undoStack = <<>>
  /\ redoStack = <<>>
  /\ canUndo = FALSE
  /\ canRedo = FALSE
  /\ ignoreHistory = FALSE
  /\ isInteractionActive = FALSE
  /\ interactionSnapshot = NoSnapshot
  /\ elementsReplaced = FALSE
  /\ rootReplaced = FALSE
  /\ nextId = 1
  /\ steps = 0

(* ------------------------- the recipes' results ------------------------ *)
\* What one call of a Tree Operation computes: the state its set() recipe
\* leaves (doc), the patches of its produceWithPatches recipe, whether the
\* call threw before any set(), and whether set() replaced the elements
\* object and the rootElementOrder array by new ones.
Outcome(doc, patches, inversePatches, threw, elsNew, rootNew) ==
  [doc |-> doc, patches |-> patches, inversePatches |-> inversePatches,
   threw |-> threw, elsNew |-> elsNew, rootNew |-> rootNew]

NoChange(d) == Outcome(d, <<>>, <<>>, FALSE, FALSE, FALSE)
Threw(d) == Outcome(d, <<>>, <<>>, TRUE, FALSE, FALSE)

\* addElement(element, parentId, targetIndex), element.id = id
AddElementOutcome(d, id, element, parentId, targetIndex) ==
  LET newElement == NewElement(element, parentId)
      els1 == PutElement(d.elements, id, newElement)
      underParent == parentId # Null /\ parentId \in DOMAIN els1
  IN IF underParent /\ parentId = id
     \* the parent found is newElement itself, a plain object that the
     \* produceWithPatches recipe pushed to and Immer then froze: the push of
     \* the set() recipe throws a TypeError and nothing is set
     THEN Threw(d)
     ELSE IF underParent
     THEN LET base == els1[parentId].children
              copy == InsertAt(base, targetIndex, id)
              ap == ArrayPatches(<<"elements", parentId, "children">>, base, copy)
          IN Outcome([d EXCEPT !.elements = [els1 EXCEPT ![parentId].children = copy]],
                     ap.patches \o <<Patch("add", <<"elements", id>>, [elem |-> newElement])>>,
                     ap.inversePatches \o <<Patch("remove", <<"elements", id>>, NoValue)>>,
                     FALSE, TRUE, FALSE)
     ELSE LET base == d.rootElementOrder
              copy == InsertAt(base, targetIndex, id)
              ap == ArrayPatches(<<"rootElementOrder">>, base, copy)
          IN Outcome([d EXCEPT !.elements = els1, !.rootElementOrder = copy],
                     <<Patch("add", <<"elements", id>>, [elem |-> newElement])>> \o ap.patches,
                     <<Patch("remove", <<"elements", id>>, NoValue)>> \o ap.inversePatches,
                     FALSE, TRUE, TRUE)

\* updateElementStyle(id, newStyle): the style object is always a new one
UpdateElementStyleOutcome(d, id, newStyle) ==
  IF id \notin DOMAIN d.elements THEN NoChange(d)
  ELSE LET old == d.elements[id].style
           new == MergeStyle(old, newStyle)
       IN Outcome([d EXCEPT !.elements[id].style = new],
                  <<Patch("replace", <<"elements", id, "style">>, [style |-> new])>>,
                  <<Patch("replace", <<"elements", id, "style">>, [style |-> old])>>,
                  FALSE, TRUE, FALSE)

\* updateElementName(id, newName): assigning the same string changes nothing
UpdateElementNameOutcome(d, id, newName) ==
  IF id \notin DOMAIN d.elements THEN NoChange(d)
  ELSE IF d.elements[id].name = newName THEN NoChange(d)
  ELSE Outcome([d EXCEPT !.elements[id].name = newName],
               <<Patch("replace", <<"elements", id, "name">>, [str |-> newName])>>,
               <<Patch("replace", <<"elements", id, "name">>, [str |-> d.elements[id].name])>>,
               FALSE, TRUE, FALSE)

RECURSIVE Distinct(_, _)
\* the entries of a sequence that are in keep, each once, in order of first
\* occurrence
Distinct(seq, keep) ==
  IF seq = <<>> THEN <<>>
  ELSE IF Head(seq) \in keep
       THEN <<Head(seq)>> \o Distinct(Tail(seq), keep \ {Head(seq)})
       ELSE Distinct(Tail(seq), keep)

\* deleteElement(id)
DeleteElementOutcome(d, id) ==
  IF id \notin DOMAIN d.elements THEN NoChange(d)
  ELSE
    LET els == d.elements
        walk == getAllDescendantIds(id, els)
        allIdsToDelete == <<id>> \o walk.ids
        oldParentId == els[id].parentId
        isRoot == oldParentId = Null
        fromParent == oldParentId # Null /\ oldParentId \in DOMAIN els
        fromRoot == ~fromParent /\ isRoot
        deselect == d.selectedElementId # Null
                      /\ Includes(allIdsToDelete, d.selectedElementId)
        gone == Distinct(allIdsToDelete, DOMAIN els)
        goneSet == {gone[i] : i \in 1..Len(gone)}
        els1 == IF fromParent
                THEN [els EXCEPT ![oldParentId].children = Filter(@, id)]
                ELSE els
        root1 == IF fromRoot THEN Filter(d.rootElementOrder, id)
                 ELSE d.rootElementOrder
        sel1 == IF deselect THEN Null ELSE d.selectedElementId
        parentKept == fromParent /\ oldParentId \notin goneSet
    IN IF walk.diverges THEN Threw(d)
       ELSE Outcome(
         Doc(DropElements(els1, goneSet), sel1, root1),
         (IF parentKept
          THEN <<Patch("replace", <<"elements", oldParentId, "children">>,
                       SeqValue(els1[oldParentId].children))>>
          ELSE <<>>)
         \o [i \in 1..Len(gone) |-> Patch("remove", <<"elements", gone[i]>>, NoValue)]
         \o (IF fromRoot
             THEN <<Patch("replace", <<"rootElementOrder">>, SeqValue(root1))>>
             ELSE <<>>)
         \o (IF deselect
             THEN <<Patch("replace", <<"selectedElementId">>, IdValue(Null))>>
             ELSE <<>>),
         (IF parentKept
          THEN <<Patch("replace", <<"elements", oldParentId, "children">>,
                       SeqValue(els[oldParentId].children))>>
          ELSE <<>>)
         \o [i \in 1..Len(gone) |->
               Patch("add", <<"elements", gone[i]>>, [elem |-> els[gone[i]]])]
         \o (IF fromRoot
             THEN <<Patch("replace", <<"rootElementOrder">>, SeqValue(d.rootElementOrder))>>
             ELSE <<>>)
         \o (IF deselect
             THEN <<Patch("replace", <<"selectedElementId">>, IdValue(d.selectedElementId))>>
             ELSE <<>>),
         FALSE, TRUE, fromRoot)

\* setParent(childId, newParentId, targetIndex), once the child is known to
\* be live and the new parent neither the child nor below it
SetParentOutcome(d, childId, newParentId, targetIndex) ==
  LET els == d.elements
      oldParentId == els[childId].parentId
      wasRoot == oldParentId = Null
      isNowRoot == newParentId = Null
      fromParent == oldParentId # Null /\ oldParentId \in DOMAIN els
      fromRoot == ~fromParent /\ wasRoot
      \* 1. remove from the old parent or from the root order
      els1 == IF fromParent
              THEN [els EXCEPT ![oldParentId].children = Filter(@, childId)]
              ELSE els
      root1 == IF fromRoot THEN Filter(d.rootElementOrder, childId)
               ELSE d.rootElementOrder
      \* 2. the child's parentId
      els2 == [els1 EXCEPT ![childId].parentId = newParentId]
      \* 3. add to the new parent or to the root order
      toParent == newParentId # Null /\ newParentId \in DOMAIN els2
      toRoot == ~toParent /\ isNowRoot
      els3 == IF toParent
              THEN [els2 EXCEPT ![newParentId].children = InsertAt(@, targetIndex, childId)]
              ELSE els2
      root3 == IF toRoot THEN InsertAt(root1, targetIndex, childId) ELSE root1
      \* the patches: an array that was assigned (the filter result) is
      \* replaced as a whole, an array changed in place is patched by index
      oldP == IF fromParent
              THEN <<Patch("replace", <<"elements", oldParentId, "children">>,
                           SeqValue(els3[oldParentId].children))>>
              ELSE <<>>
      oldI == IF fromParent
              THEN <<Patch("replace", <<"elements", oldParentId, "children">>,
                           SeqValue(els[oldParentId].children))>>
              ELSE <<>>
      idP == IF newParentId # oldParentId
             THEN <<Patch("replace", <<"elements", childId, "parentId">>, IdValue(newParentId))>>
             ELSE <<>>
      idI == IF newParentId # oldParentId
             THEN <<Patch("replace", <<"elements", childId, "parentId">>, IdValue(oldParentId))>>
             ELSE <<>>
      inPlace == toParent /\ ~(fromParent /\ oldParentId = newParentId)
      newAP == IF inPlace
               THEN ArrayPatches(<<"elements", newParentId, "children">>,
                                 els[newParentId].children, els3[newParentId].children)
               ELSE [patches |-> <<>>, inversePatches |-> <<>>]
      rootAP == IF fromRoot
                THEN [patches |-> <<Patch("replace", <<"rootElementOrder">>, SeqValue(root3))>>,
                      inversePatches |->
                        <<Patch("replace", <<"rootElementOrder">>, SeqValue(d.rootElementOrder))>>]
                ELSE IF toRoot
                THEN ArrayPatches(<<"rootElementOrder">>, d.rootElementOrder, root3)
                ELSE [patches |-> <<>>, inversePatches |-> <<>>]
      patches == oldP \o idP \o newAP.patches \o rootAP.patches
      inversePatches == oldI \o idI \o newAP.inversePatches \o rootAP.inversePatches
  IN Outcome(Doc(els3, d.selectedElementId, root3), patches, inversePatches, FALSE,
             fromParent \/ toParent \/ newParentId # oldParentId,
             fromRoot \/ toRoot)

\* the list reorderSiblings works on: getSiblingList
getSiblingList(d, parentId) ==
  IF parentId = Null THEN d.rootElementOrder
  ELSE IF parentId \in DOMAIN d.elements THEN d.elements[parentId].children
  ELSE <<>>

\* the move with the index the target had before the dragged id was removed
ReorderedWithStaleIndex(siblings, draggedId, targetId, position) ==
  LET draggedIndex == IndexOf(siblings, draggedId)
      removed == SpliceRemove(siblings, draggedIndex)
      targetIndex == IndexOf(siblings, targetId)
      insertAtIndex == IF position = "before" THEN targetIndex ELSE targetIndex + 1
  IN SpliceInsert(removed, insertAtIndex, draggedId)

\* the sibling list after the move, for ids both found in it
Reordered(siblings, draggedId, targetId, position) ==
  LET draggedIndex == IndexOf(siblings, draggedId)
      removed == SpliceRemove(siblings, draggedIndex)
      targetIndex == IndexOf(removed, targetId)
      insertAtIndex == IF position = "before" THEN targetIndex ELSE targetIndex + 1
  IN SpliceInsert(removed, insertAtIndex, draggedId)

\* reorderSiblings that returns early only when both ids are absent
ReorderSiblingsOutcomeBothAbsent(d, parentId, draggedId, targetId, position) ==
  LET siblings == getSiblingList(d, parentId)
  IN IF IndexOf(siblings, draggedId) = -1 /\ IndexOf(siblings, targetId) = -1
     THEN NoChange(d)
     ELSE LET newList == Reordered(siblings, draggedId, targetId, position)
              path == IF parentId = Null THEN <<"rootElementOrder">>
                      ELSE <<"elements", parentId, "children">>
          IN IF parentId # Null /\ parentId \notin DOMAIN d.elements THEN NoChange(d)
             ELSE Outcome(
               IF parentId = Null THEN [d EXCEPT !.rootElementOrder = newList]
               ELSE [d EXCEPT !.elements[parentId].children = newList],
               <<Patch("replace", path, SeqValue(newList))>>,
               <<Patch("replace", path, SeqValue(siblings))>>,
               FALSE, parentId # Null, parentId = Null)

\* reorderSiblings(parentId, draggedId, targetId, position)
ReorderSiblingsOutcome(d, parentId, draggedId, targetId, position) ==
  LET siblings == getSiblingList(d, parentId)
  IN IF IndexOf(siblings, draggedId) = -1 \/ IndexOf(siblings, targetId) = -1
     THEN NoChange(d)
     ELSE LET newList == Reordered(siblings, draggedId, targetId, position)
              path == IF parentId = Null THEN <<"rootElementOrder">>
                      ELSE <<"elements", parentId, "children">>
          IN Outcome(
               IF parentId = Null THEN [d EXCEPT !.rootElementOrder = newList]
               ELSE [d EXCEPT !.elements[parentId].children = newList],
               <<Patch("replace", path, SeqValue(newList))>>,
               <<Patch("replace", path, SeqValue(siblings))>>,
               FALSE, parentId # Null, parentId = Null)

(* --------------------------- history engine ---------------------------- *)
HistoryEntry(patches, inversePatches) ==
  [patches |-> patches, inversePatches |-> inversePatches]

\* recordHistory without the clearing of the redo stack
recordHistoryKeepsRedo(S, entry) ==
  [S EXCEPT !.undoStack = Append(@, entry),
            !.canUndo = TRUE]

\* recordHistory that keeps only the newest entry
recordHistoryNewestOnly(S, entry) ==
  [S EXCEPT !.undoStack = <<entry>>,
            !.redoStack = <<>>,
            !.canRedo = IF Len(S.redoStack) > 0 THEN FALSE ELSE @,
            !.canUndo = TRUE]

\* recordHistory(entry)
recordHistory(S, entry) ==
  [S EXCEPT !.undoStack = Append(@, entry),
            !.redoStack = <<>>,
            !.canRedo = IF Len(S.redoStack) > 0 THEN FALSE ELSE @,
            !.canUndo = TRUE]

\* set(): the three slices, and whether they are still the snapshot's objects
SetDoc(S, doc, elsNew, rootNew) ==
  [S EXCEPT !.elements = doc.elements,
            !.selectedElementId = doc.selectedElementId,
            !.rootElementOrder = doc.rootElementOrder,
            !.elementsReplaced = S.isInteractionActive /\ (@ \/ elsNew),
            !.rootReplaced = S.isInteractionActive /\ (@ \/ rootNew)]

\* a Tree Operation that records without testing patches.length
TreeOperationAlwaysRecording(S, o, applyAlways, mayRecord) ==
  IF o.threw THEN S
  ELSE IF S.ignoreHistory THEN SetDoc(S, o.doc, o.elsNew, o.rootNew)
  ELSE LET applied == IF applyAlways \/ Len(o.patches) > 0
                      THEN SetDoc(S, o.doc, o.elsNew, o.rootNew)
                      ELSE S
       IN IF mayRecord
          THEN recordHistory(applied, HistoryEntry(o.patches, o.inversePatches))
          ELSE applied

\* The common shape of a Tree Operation: with _ignoreHistory set the recipe
\* is applied and nothing recorded; otherwise the recipe is applied (for
\* setParent and reorderSiblings only when there are patches) and the entry
\* recorded when there are patches and recording is allowed.
TreeOperation(S, o, applyAlways, mayRecord) ==
  IF o.threw THEN S
  ELSE IF S.ignoreHistory THEN SetDoc(S, o.doc, o.elsNew, o.rootNew)
  ELSE LET applied == IF applyAlways \/ Len(o.patches) > 0
                      THEN SetDoc(S, o.doc, o.elsNew, o.rootNew)
                      ELSE S
       IN IF mayRecord /\ Len(o.patches) > 0
          THEN recordHistory(applied, HistoryEntry(o.patches, o.inversePatches))
          ELSE applied

(* ------------------------- the store's operations ---------------------- *)
addElement(S, id, element, parentId, targetIndex) ==
  TreeOperation(S, AddElementOutcome(DocOf(S), id, element, parentId, targetIndex),
                TRUE, TRUE)

selectElement(S, id) == [S EXCEPT !.selectedElementId = id]

\* updateElementStyle without the isInteractionActive test before recording
updateElementStyleAlwaysRecording(S, id, newStyle) ==
  TreeOperation(S, UpdateElementStyleOutcome(DocOf(S), id, newStyle), TRUE, TRUE)

updateElementStyle(S, id, newStyle) ==
  TreeOperation(S, UpdateElementStyleOutcome(DocOf(S), id, newStyle),
                TRUE, ~S.isInteractionActive)

updateElementName(S, id, newName) ==
  TreeOperation(S, UpdateElementNameOutcome(DocOf(S), id, newName), TRUE, TRUE)

deleteElement(S, id) ==
  TreeOperation(S, DeleteElementOutcome(DocOf(S), id), TRUE, TRUE)

\* the guards of setParent without the isAncestor test
SetParentRejectedNoAncestorTest(d, childId, newParentId) ==
  \/ childId \notin DOMAIN d.elements
  \/ childId = newParentId

\* the guards of setParent before any recipe runs
SetParentRejected(d, childId, newParentId) ==
  \/ childId \notin DOMAIN d.elements
  \/ childId = newParentId
  \/ newParentId # Null /\ isAncestor(newParentId, childId, d.elements) = "true"

\* the ancestor walk of the guard never returns
SetParentThrows(d, childId, newParentId) ==
  /\ childId \in DOMAIN d.elements
  /\ childId # newParentId
  /\ newParentId # Null
  /\ isAncestor(newParentId, childId, d.elements) = "diverges"

setParent(S, childId, newParentId, targetIndex) ==
  TreeOperation(S,
    IF SetParentRejected(DocOf(S), childId, newParentId) THEN NoChange(DocOf(S))
    ELSE IF SetParentThrows(DocOf(S), childId, newParentId) THEN Threw(DocOf(S))
    ELSE SetParentOutcome(DocOf(S), childId, newParentId, targetIndex),
    FALSE, TRUE)

\* with _ignoreHistory set reorderSiblings returns at once
reorderSiblings(S, parentId, draggedId, targetId, position) ==
  IF S.ignoreHistory THEN S
  ELSE TreeOperation(S,
         ReorderSiblingsOutcome(DocOf(S), parentId, draggedId, targetId, position),
         FALSE, TRUE)

\* startInteraction that keeps the snapshot of an interaction already active
startInteractionKeepsFirstSnapshot(S) ==
  IF S.isInteractionActive THEN [S EXCEPT !.ignoreHistory = FALSE]
  ELSE [S EXCEPT !.isInteractionActive = TRUE,
                 !.interactionSnapshot = DocOf(S),
                 !.elementsReplaced = FALSE,
                 !.rootReplaced = FALSE,
                 !.ignoreHistory = FALSE]

\* startInteraction without the second set(): _ignoreHistory stays set
startInteractionKeepsFlag(S) ==
  [S EXCEPT !.isInteractionActive = TRUE,
            !.interactionSnapshot = DocOf(S),
            !.elementsReplaced = FALSE,
            !.rootReplaced = FALSE,
            !.ignoreHistory = TRUE]

\* _ignoreHistory is set in the first set() and cleared in the second
startInteraction(S) ==
  [S EXCEPT !.isInteractionActive = TRUE,
            !.interactionSnapshot = DocOf(S),
            !.elementsReplaced = FALSE,
            !.rootReplaced = FALSE,
            !.ignoreHistory = FALSE]

\* the patches of produceWithPatches(startSnapshot, ...): a slice is replaced
\* when the value assigned is not the one the snapshot holds (Object.is)
InteractionPatches(S, forward) ==
  LET snap == S.interactionSnapshot
  IN (IF S.elementsReplaced
      THEN <<Patch("replace", <<"elements">>,
                   [elems |-> IF forward THEN S.elements ELSE snap.elements])>>
      ELSE <<>>)
     \o (IF S.selectedElementId # snap.selectedElementId
         THEN <<Patch("replace", <<"selectedElementId">>,
                      IdValue(IF forward THEN S.selectedElementId
                              ELSE snap.selectedElementId))>>
         ELSE <<>>)
     \o (IF S.rootReplaced
         THEN <<Patch("replace", <<"rootElementOrder">>,
                      SeqValue(IF forward THEN S.rootElementOrder
                               ELSE snap.rootElementOrder))>>
         ELSE <<>>)

\* endInteraction that keeps the snapshot
endInteractionKeepsSnapshot(S) ==
  LET measured == S.isInteractionActive /\ S.interactionSnapshot # NoSnapshot
      pushed == IF measured /\ Len(InteractionPatches(S, TRUE)) > 0
                THEN [S EXCEPT !.undoStack =
                                 Append(@, HistoryEntry(InteractionPatches(S, TRUE),
                                                        InteractionPatches(S, FALSE))),
                               !.redoStack = <<>>,
                               !.canRedo = IF Len(S.redoStack) > 0 THEN FALSE ELSE @,
                               !.canUndo = TRUE]
                ELSE S
  IN [pushed EXCEPT !.isInteractionActive = FALSE,
                    !.elementsReplaced = FALSE,
                    !.rootReplaced = FALSE,
                    !.ignoreHistory = FALSE]

\* endInteraction with canUndo set outside the test of the patches
endInteractionSetsCanUndo(S) ==
  LET measured == S.isInteractionActive /\ S.interactionSnapshot # NoSnapshot
      pushed == IF measured /\ Len(InteractionPatches(S, TRUE)) > 0
                THEN [S EXCEPT !.undoStack =
                                 Append(@, HistoryEntry(InteractionPatches(S, TRUE),
                                                        InteractionPatches(S, FALSE))),
                               !.redoStack = <<>>,
                               !.canRedo = IF Len(S.redoStack) > 0 THEN FALSE ELSE @]
                ELSE S
  IN [pushed EXCEPT !.canUndo = TRUE,
                    !.isInteractionActive = FALSE,
                    !.interactionSnapshot = NoSnapshot,
                    !.elementsReplaced = FALSE,
                    !.rootReplaced = FALSE,
                    !.ignoreHistory = FALSE]

endInteraction(S) ==
  LET measured == S.isInteractionActive /\ S.interactionSnapshot # NoSnapshot
      pushed == IF measured /\ Len(InteractionPatches(S, TRUE)) > 0
                THEN [S EXCEPT !.undoStack =
                                 Append(@, HistoryEntry(InteractionPatches(S, TRUE),
                                                        InteractionPatches(S, FALSE))),
                               !.redoStack = <<>>,
                               !.canRedo = IF Len(S.redoStack) > 0 THEN FALSE ELSE @,
                               !.canUndo = TRUE]
                ELSE S
  IN [pushed EXCEPT !.isInteractionActive = FALSE,
                    !.interactionSnapshot = NoSnapshot,
                    !.elementsReplaced = FALSE,
                    !.rootReplaced = FALSE,
                    !.ignoreHistory = FALSE]

\* applying the patches assigns a new object wherever a patch carries an
\* object or an array, and wherever a value changes
ObjectPatched(patches, slice) ==
  \E i \in 1..Len(patches) :
     /\ patches[i].path[1] = slice
     /\ (DOMAIN patches[i].value) \cap {"elem", "elems", "style", "seq"} # {}

\* the set() of undo and redo: the three slices of the patched state
Replayed(S, patches, doc) ==
  SetDoc(S, doc,
         ObjectPatched(patches, "elements") \/ doc.elements # S.elements,
         ObjectPatched(patches, "rootElementOrder")
           \/ doc.rootElementOrder # S.rootElementOrder)

\* undo that leaves canUndo as it is
undoKeepsCanUndo(S) ==
  IF ~S.canUndo THEN S
  ELSE IF S.undoStack = <<>> THEN [S EXCEPT !.ignoreHistory = FALSE]
  ELSE LET entry == S.undoStack[Len(S.undoStack)]
           r == applyPatches(DocOf(S), entry.inversePatches)
       IN IF ~r.ok THEN [S EXCEPT !.ignoreHistory = FALSE]
          ELSE [Replayed(S, entry.inversePatches, r.doc) EXCEPT
                  !.undoStack = SubSeq(@, 1, Len(@) - 1),
                  !.redoStack = Append(@, entry),
                  !.canRedo = TRUE,
                  !.ignoreHistory = FALSE]

\* undo without the finally block: a failed replay leaves _ignoreHistory set
undoWithoutFinally(S) ==
  IF ~S.canUndo THEN S
  ELSE IF S.undoStack = <<>> THEN [S EXCEPT !.ignoreHistory = TRUE]
  ELSE LET entry == S.undoStack[Len(S.undoStack)]
           r == applyPatches(DocOf(S), entry.inversePatches)
       IN IF ~r.ok THEN [S EXCEPT !.ignoreHistory = TRUE]
          ELSE [Replayed(S, entry.inversePatches, r.doc) EXCEPT
                  !.undoStack = SubSeq(@, 1, Len(@) - 1),
                  !.redoStack = Append(@, entry),
                  !.canUndo = Len(S.undoStack) - 1 > 0,
                  !.canRedo = TRUE,
                  !.ignoreHistory = FALSE]

undo(S) ==
  IF ~S.canUndo THEN S
  \* with no entry on the stack entry is undefined: the TypeError is caught
  ELSE IF S.undoStack = <<>> THEN [S EXCEPT !.ignoreHistory = FALSE]
  ELSE LET entry == S.undoStack[Len(S.undoStack)]
           r == applyPatches(DocOf(S), entry.inversePatches)
       IN IF ~r.ok THEN [S EXCEPT !.ignoreHistory = FALSE]
          ELSE [Replayed(S, entry.inversePatches, r.doc) EXCEPT
                  !.undoStack = SubSeq(@, 1, Len(@) - 1),
                  !.redoStack = Append(@, entry),
                  !.canUndo = Len(S.undoStack) - 1 > 0,
                  !.canRedo = TRUE,
                  !.ignoreHistory = FALSE]

\* redo that pushes the entry on the undo stack without popping it from the
\* redo stack
redoWithoutPop(S) ==
  IF ~S.canRedo THEN S
  ELSE IF S.redoStack = <<>> THEN [S EXCEPT !.ignoreHistory = FALSE]
  ELSE LET entry == S.redoStack[Len(S.redoStack)]
           r == applyPatches(DocOf(S), entry.patches)
       IN IF ~r.ok THEN [S EXCEPT !.ignoreHistory = FALSE]
          ELSE [Replayed(S, entry.patches, r.doc) EXCEPT
                  !.undoStack = Append(@, entry),
                  !.canRedo = Len(S.redoStack) > 0,
                  !.canUndo = TRUE,
                  !.ignoreHistory = FALSE]

redo(S) ==
  IF ~S.canRedo THEN S
  ELSE IF S.redoStack = <<>> THEN [S EXCEPT !.ignoreHistory = FALSE]
  ELSE LET entry == S.redoStack[Len(S.redoStack)]
           r == applyPatches(DocOf(S), entry.patches)
       IN IF ~r.ok THEN [S EXCEPT !.ignoreHistory = FALSE]
          ELSE [Replayed(S, entry.patches, r.doc) EXCEPT
                  !.redoStack = SubSeq(@, 1, Len(@) - 1),
                  !.undoStack = Append(@, entry),
                  !.canRedo = Len(S.redoStack) - 1 > 0,
                  !.canUndo = TRUE,
                  !.ignoreHistory = FALSE]

\* toggleLayerCollapse that only adds
toggleLayerCollapseAddOnly(S, elementId) ==
  [S EXCEPT !.collapsedLayers = @ \cup {elementId}]

toggleLayerCollapse(S, elementId) ==
  [S EXCEPT !.collapsedLayers = IF elementId \in @ THEN @ \ {elementId}
                                ELSE @ \cup {elementId}]

(* ------------------------------- actions ------------------------------- *)
\* One call of a store operation.  A call that changes the store counts as a
\* step of the run.
Call(S) ==
  /\ steps < MaxSteps
  /\ SetStore(S)
  /\ steps' = IF S = Store THEN steps ELSE steps + 1

\* createDefaultDiv-style callers: the element carries a fresh id from
\* generateId, the default name and the default style
AddElement(parentId, targetIndex) ==
  /\ nextId <= MaxIds
  /\ Call(addElement(Store, nextId, DefaultElement, parentId, targetIndex))
  /\ nextId' = nextId + 1

SelectElement(id) ==
  Call(selectElement(Store, id)) /\ UNCHANGED nextId

UpdateElementStyle(id, newStyle) ==
  Call(updateElementStyle(Store, id, newStyle)) /\ UNCHANGED nextId

UpdateElementName(id, newName) ==
  Call(updateElementName(Store, id, newName)) /\ UNCHANGED nextId

DeleteElement(id) ==
  Call(deleteElement(Store, id)) /\ UNCHANGED nextId

SetParent(childId, newParentId, targetIndex) ==
  Call(setParent(Store, childId, newParentId, targetIndex)) /\ UNCHANGED nextId

ReorderSiblings(parentId, draggedId, targetId, position) ==
  Call(reorderSiblings(Store, parentId, draggedId, targetId, position))
  /\ UNCHANGED nextId

StartInteraction == Call(startInteraction(Store)) /\ UNCHANGED nextId

EndInteraction == Call(endInteraction(Store)) /\ UNCHANGED nextId

Undo == Call(undo(Store)) /\ UNCHANGED nextId

Redo == Call(redo(Store)) /\ UNCHANGED nextId

ToggleLayerCollapse(elementId) ==
  Call(toggleLayerCollapse(Store, elementId)) /\ UNCHANGED nextId

(* ---------------------------- specification ---------------------------- *)
\* The callers select what they show: a live element, or nothing.
Next ==
  \/ \E p \in ParentArgs, i \in TargetIndexArgs : AddElement(p, i)
  \/ \E id \in (DOMAIN elements) \cup {Null} : SelectElement(id)
  \/ \E id \in IdArgs, st \in StyleArgs : UpdateElementStyle(id, st)
  \/ \E id \in IdArgs, nm \in Names : UpdateElementName(id, nm)
  \/ \E id \in IdArgs : DeleteElement(id)
  \/ \E c \in IdArgs, p \in ParentArgs, i \in TargetIndexArgs : SetParent(c, p, i)
  \/ \E p \in ParentArgs, a \in IdArgs, b \in IdArgs, pos \in Positions :
        ReorderSiblings(p, a, b, pos)
  \/ StartInteraction
  \/ EndInteraction
  \/ Undo
  \/ Redo
  \/ \E id \in IdArgs : ToggleLayerCollapse(id)

Spec == Init /\ [][Next]_vars

(* ---------------------- calls, for the properties ---------------------- *)
\* The calls of the Tree Operations with the arguments the actions draw.
TreeCalls ==
  {[op |-> "addElement", parentId |-> p, targetIndex |-> i] :
     p \in ParentArgs, i \in TargetIndexArgs}
  \cup {[op |-> "updateElementStyle", id |-> id, newStyle |-> st] :
     id \in IdArgs, st \in StyleArgs}
  \cup {[op |-> "updateElementName", id |-> id, newName |-> nm] :
     id \in IdArgs, nm \in Names}
  \cup {[op |-> "deleteElement", id |-> id] : id \in IdArgs}
  \cup {[op |-> "setParent", childId |-> c, newParentId |-> p, targetIndex |-> i] :
     c \in IdArgs, p \in ParentArgs, i \in TargetIndexArgs}
  \cup {[op |-> "reorderSiblings", parentId |-> p, draggedId |-> a, targetId |-> b,
         position |-> pos] :
     p \in ParentArgs, a \in IdArgs, b \in IdArgs, pos \in Positions}

\* The store after the call c; fresh is the id generateId hands to an
\* addElement.
Do(S, c, fresh) ==
  CASE c.op = "addElement" ->
         addElement(S, fresh, DefaultElement, c.parentId, c.targetIndex)
    [] c.op = "updateElementStyle" -> updateElementStyle(S, c.id, c.newStyle)
    [] c.op = "updateElementName" -> updateElementName(S, c.id, c.newName)
    [] c.op = "deleteElement" -> deleteElement(S, c.id)
    [] c.op = "setParent" -> setParent(S, c.childId, c.newParentId, c.targetIndex)
    [] c.op = "reorderSiblings" ->
         reorderSiblings(S, c.parentId, c.draggedId, c.targetId, c.position)

\* the call appended an entry to the undo stack
Recorded(S, T) == Len(T.undoStack) = Len(S.undoStack) + 1

(* ------------------------------ properties ---------------------------- *)
\* C1: with no interaction active, after any Tree Operation call that
\* records a history entry an immediate undo() makes elements,
\* rootElementOrder and selectedElementId equal to their values before the
\* call, and a redo() right after it makes them equal to their values after
\* the call.
C1_RoundTrip ==
  ~isInteractionActive =>
    \A c \in TreeCalls :
      LET after == Do(Store, c, nextId)
          undone == undo(after)
          redone == redo(undone)
      IN Recorded(Store, after) =>
           /\ DocOf(undone) = DocOf(Store)
           /\ DocOf(redone) = DocOf(after)

\* a state with a parent and a child, where a recorded call changes both the
\* table and a children list and the round trip restores them
C1_Witness ==
  /\ ~isInteractionActive
  /\ \E c \in TreeCalls :
       LET after == Do(Store, c, nextId)
       IN /\ c.op = "setParent"
          /\ c.newParentId \in DOMAIN elements
          /\ Recorded(Store, after)
          /\ after.elements # elements
          /\ after.rootElementOrder # rootElementOrder
          /\ DocOf(undo(after)) = DocOf(Store)
          /\ DocOf(redo(undo(after))) = DocOf(after)


RECURSIVE UndoTimes(_, _)
\* n consecutive undo() calls
UndoTimes(S, n) == IF n = 0 THEN S ELSE UndoTimes(undo(S), n - 1)

RECURSIVE RedoTimes(_, _)
\* n consecutive redo() calls
RedoTimes(S, n) == IF n = 0 THEN S ELSE RedoTimes(redo(S), n - 1)

\* the call changed elements or rootElementOrder
Changed(S, T) ==
  T.elements # S.elements \/ T.rootElementOrder # S.rootElementOrder

RECURSIVE OneEntryPerCall(_, _, _, _)
\* S is the store n changing calls after S0, whose stacks were empty: the
\* undo stack has n entries, n undos give back the table and root order of
\* S0, n redos after them those of S; and the same after every further
\* changing call, up to MaxCalls calls.
OneEntryPerCall(S0, S, fresh, n) ==
  /\ Len(S.undoStack) = n
  /\ UndoTimes(S, n).elements = S0.elements
  /\ UndoTimes(S, n).rootElementOrder = S0.rootElementOrder
  /\ RedoTimes(UndoTimes(S, n), n).elements = S.elements
  /\ RedoTimes(UndoTimes(S, n), n).rootElementOrder = S.rootElementOrder
  /\ n < MaxCalls =>
       \A c \in TreeCalls :
         LET T == Do(S, c, fresh)
         IN Changed(S, T) =>
              /\ T.undoStack = Append(S.undoStack, T.undoStack[Len(T.undoStack)])
              /\ OneEntryPerCall(S0, T, IF c.op = "addElement" THEN fresh + 1 ELSE fresh,
                                 n + 1)

\* C2: from empty undo and redo stacks and with no interaction active, every
\* Tree Operation call that changes elements or rootElementOrder appends
\* exactly one entry to the undo stack; after n such calls the stack has n
\* entries, n undos restore the initial elements and rootElementOrder and n
\* redos after them restore the values after the n-th call.
C2_OneEntryPerCall ==
  (undoStack = <<>> /\ redoStack = <<>> /\ ~isInteractionActive) =>
    OneEntryPerCall(Store, Store, nextId, 0)

\* the empty history, from which two changing calls leave two entries that
\* two undos take back
C2_Witness ==
  /\ undoStack = <<>> /\ redoStack = <<>> /\ ~isInteractionActive
  /\ \E c1 \in TreeCalls, c2 \in TreeCalls :
       LET S1 == Do(Store, c1, nextId)
           S2 == Do(S1, c2, nextId + 1)
       IN /\ Changed(Store, S1) /\ Changed(S1, S2)
          /\ c2.op = "setParent"
          /\ Len(S2.undoStack) = 2
          /\ UndoTimes(S2, 2).elements = elements
          /\ RedoTimes(UndoTimes(S2, 2), 2).elements = S2.elements

RECURSIVE StyleGesture(_, _, _, _, _)
\* S is the store n updateElementStyle(id, ...) calls after startInteraction()
\* was called in S0; changedStyle says that one of the calls changed the
\* style.  Ending the gesture here adds one entry over S0 and one undo gives
\* the element the style it had in S0; and the same after every further
\* call, up to MaxGesture calls.
StyleGesture(S0, S, id, n, changedStyle) ==
  /\ (n >= 1 /\ changedStyle) =>
       LET ended == endInteraction(S)
       IN /\ Len(ended.undoStack) = Len(S0.undoStack) + 1
          /\ id \in DOMAIN undo(ended).elements
          /\ undo(ended).elements[id].style = S0.elements[id].style
  /\ n < MaxGesture =>
       \A st \in StyleArgs :
         LET T == updateElementStyle(S, id, st)
         IN /\ T.undoStack = S.undoStack
            /\ StyleGesture(S0, T, id, n + 1,
                            changedStyle \/ T.elements[id].style # S.elements[id].style)

\* C3: for N >= 1 updateElementStyle calls on a live element between
\* startInteraction() and endInteraction(), at least one of which changes the
\* style, the gesture adds exactly one entry to the undo stack and one
\* undo() after it gives the element the style it had at startInteraction().
C3_Batching ==
  ~isInteractionActive =>
    \A id \in DOMAIN elements :
      StyleGesture(Store, startInteraction(Store), id, 0, FALSE)

\* an idle state with an element whose left was changed to 1 before, from
\* which a gesture of two updates to left = 2 is undone to left = 1
C3_Witness ==
  /\ ~isInteractionActive
  /\ \E id \in DOMAIN elements :
       LET S1 == updateElementStyle(startInteraction(Store), id, [left |-> 2])
           S2 == updateElementStyle(S1, id, [left |-> 2])
           ended == endInteraction(S2)
       IN /\ elements[id].style.left = 1
          /\ S1.elements[id].style.left = 2
          /\ S2.elements[id].style = S1.elements[id].style
          /\ Len(ended.undoStack) = Len(undoStack) + 1
          /\ undo(ended).elements[id].style.left = 1

\* a Tree Operation step
TreeOperationStep ==
  \E c \in TreeCalls :
     /\ SetStore(Do(Store, c, nextId))
     /\ nextId' = IF c.op = "addElement" THEN nextId + 1 ELSE nextId

\* C4: while an interaction is active no Tree Operation call changes the
\* undo stack.
C4_NoEntryWhileActive ==
  [][(isInteractionActive /\ TreeOperationStep) => undoStack' = undoStack]_vars

RECURSIVE DownFrom(_, _, _)
DownFrom(ids, els, k) ==
  IF k = 0 THEN ids
  ELSE DownFrom(ids \cup UNION {{els[x].children[i] : i \in 1..Len(els[x].children)} :
                                 x \in ids \cap DOMAIN els},
                els, k - 1)

\* the ids below id in the tree of children lists
Descendants(id, els) ==
  IF id \notin DOMAIN els THEN {}
  ELSE DownFrom({els[id].children[i] : i \in 1..Len(els[id].children)}, els,
                Cardinality(DOMAIN els)) \ {Hole}

RECURSIVE UpFrom(_, _, _)
UpFrom(ids, els, k) ==
  IF k = 0 THEN ids
  ELSE UpFrom(ids \cup {els[x].parentId : x \in ids \cap DOMAIN els}, els, k - 1)

\* the ids met by following the parentId links up from id
Ancestors(id, els) ==
  UpFrom({els[id].parentId}, els, Cardinality(DOMAIN els)) \ {Null}

\* C6: no live element is its own ancestor by the parentId links, and none
\* is in its own children list.
C6_Acyclic ==
  \A id \in DOMAIN elements :
    /\ id \notin Ancestors(id, elements)
    /\ ~Includes(elements[id].children, id)

Count(seq, x) == Cardinality({i \in 1..Len(seq) : seq[i] = x})

\* how often x occurs in rootElementOrder and in all the children lists
Occurrences(x) ==
  Count(rootElementOrder, x)
  + Cardinality({pi \in UNION {{<<p, i>> : i \in 1..Len(elements[p].children)} :
                               p \in DOMAIN elements} :
                   elements[pi[1]].children[pi[2]] = x})

\* C7: every id X in the children of a live element P is live, has parentId
\* P and occurs exactly once in all the children lists and rootElementOrder.
C7_ParentChildren ==
  \A p \in DOMAIN elements : \A i \in 1..Len(elements[p].children) :
    LET x == elements[p].children[i]
    IN /\ x \in DOMAIN elements
       /\ elements[x].parentId = p
       /\ Occurrences(x) = 1

\* C8: rootElementOrder has no duplicates and holds exactly the live ids
\* whose parentId is null.
C8_RootOrder ==
  /\ \A i, j \in 1..Len(rootElementOrder) :
       rootElementOrder[i] = rootElementOrder[j] => i = j
  /\ {rootElementOrder[i] : i \in 1..Len(rootElementOrder)}
       = {id \in DOMAIN elements : elements[id].parentId = Null}

\* C9: deleteElement(A) on a live A leaves the table without A and its
\* descendants and otherwise as it was but for the children list that held
\* A; A is in no list any more and the lists keep the order of their other
\* members; the selection is null if it was A or a descendant of A and
\* unchanged otherwise.
C9_CascadingDelete ==
  \A a \in DOMAIN elements :
    LET T == deleteElement(Store, a)
        gone == {a} \cup Descendants(a, elements)
    IN /\ DOMAIN T.elements = (DOMAIN elements) \ gone
       /\ T.rootElementOrder = Filter(rootElementOrder, a)
       /\ \A x \in DOMAIN T.elements :
            /\ T.elements[x].children = Filter(elements[x].children, a)
            /\ T.elements[x].name = elements[x].name
            /\ T.elements[x].style = elements[x].style
            /\ T.elements[x].parentId = elements[x].parentId
       /\ T.selectedElementId =
            (IF selectedElementId \in gone THEN Null ELSE selectedElementId)

\* C10: selectedElementId is null or the id of a live element.
C10_SelectionLive ==
  selectedElementId = Null \/ selectedElementId \in DOMAIN elements

\* the ids selectElement is called with
SelectArgs == IdArgs \cup {Null}

\* a gesture whose only call is selectElement(id)
SelectionGesture(S, id) ==
  endInteraction(selectElement(startInteraction(S), id))

\* C11: selectElement(id) leaves the undo and the redo stack unchanged,
\* whether or not an interaction is active, and a gesture whose only change
\* is a change of selectedElementId pushes no history entry and does not
\* clear the redo stack.
C11_SelectionNotRecorded ==
  /\ \A id \in SelectArgs :
       /\ selectElement(Store, id).undoStack = undoStack
       /\ selectElement(Store, id).redoStack = redoStack
  /\ ~isInteractionActive =>
       \A id \in (DOMAIN elements) \cup {Null} :
         /\ SelectionGesture(Store, id).undoStack = undoStack
         /\ SelectionGesture(Store, id).redoStack = redoStack

\* a gesture of one updateElementStyle call
OneStyleGesture(S, id, st) ==
  endInteraction(updateElementStyle(startInteraction(S), id, st))

\* T has an entry more on the undo stack than S, and then an empty redo
\* stack and canRedo false
RedoCleared(S, T) ==
  Len(T.undoStack) > Len(S.undoStack) => (T.redoStack = <<>> /\ ~T.canRedo)

\* C12: whenever recordHistory after a Tree Operation, or endInteraction for
\* a gesture, appends an entry to the undo stack, the redo stack is empty and
\* canRedo is false immediately afterwards.
C12_NewEditClearsRedo ==
  /\ \A c \in TreeCalls : RedoCleared(Store, Do(Store, c, nextId))
  /\ RedoCleared(Store, endInteraction(Store))
  /\ ~isInteractionActive =>
       \A id \in DOMAIN elements, st \in StyleArgs :
         RedoCleared(Store, OneStyleGesture(Store, id, st))

\* a state with an undone entry, where a Tree Operation and a gesture both
\* append an entry and leave the redo stack empty
C12_Witness ==
  /\ ~isInteractionActive
  /\ Len(redoStack) >= 1 /\ canRedo
  /\ \E c \in TreeCalls :
       /\ Len(Do(Store, c, nextId).undoStack) = Len(undoStack) + 1
       /\ Do(Store, c, nextId).redoStack = <<>>
  /\ \E id \in DOMAIN elements, st \in StyleArgs :
       /\ Len(OneStyleGesture(Store, id, st).undoStack) = Len(undoStack) + 1
       /\ OneStyleGesture(Store, id, st).redoStack = <<>>
       /\ ~OneStyleGesture(Store, id, st).canRedo

\* C13: between operations canUndo is true exactly when the undo stack is
\* not empty and canRedo is true exactly when the redo stack is not empty.
C13_Flags ==
  /\ canUndo <=> (undoStack # <<>>)
  /\ canRedo <=> (redoStack # <<>>)

\* after an undo that emptied the undo stack: canUndo is false again and
\* canRedo true, and a redo from there sets canUndo and, taking the last
\* entry, clears canRedo
C13_Witness ==
  /\ undoStack = <<>> /\ ~canUndo
  /\ redoStack # <<>> /\ canRedo
  /\ redo(Store).canUndo /\ redo(Store).undoStack # <<>>
  /\ Len(redoStack) = 1 => ~redo(Store).canRedo

\* C14: an undo() that succeeds moves the top entry of the undo stack to the
\* top of the redo stack, a redo() that succeeds moves the top entry of the
\* redo stack to the top of the undo stack, and neither touches any other
\* entry, so the number of entries on the two stacks stays the same; undo()
\* with an empty undo stack and redo() with an empty redo stack change
\* nothing.
C14_StackMovement ==
  /\ LET T == undo(Store)
     IN IF undoStack = <<>> THEN T = Store
        ELSE \/ /\ T.undoStack = SubSeq(undoStack, 1, Len(undoStack) - 1)
                /\ T.redoStack = Append(redoStack, undoStack[Len(undoStack)])
             \/ /\ T.undoStack = undoStack
                /\ T.redoStack = redoStack
  /\ LET T == redo(Store)
     IN IF redoStack = <<>> THEN T = Store
        ELSE \/ /\ T.redoStack = SubSeq(redoStack, 1, Len(redoStack) - 1)
                /\ T.undoStack = Append(undoStack, redoStack[Len(redoStack)])
             \/ /\ T.undoStack = undoStack
                /\ T.redoStack = redoStack

\* a state with two entries on the undo stack and one on the redo stack,
\* from which undo moves an entry one way and redo moves one the other way
C14_Witness ==
  /\ Len(undoStack) = 2 /\ Len(redoStack) = 1
  /\ undo(Store).undoStack = <<undoStack[1]>>
  /\ undo(Store).redoStack = <<redoStack[1], undoStack[2]>>
  /\ redo(Store).undoStack = <<undoStack[1], undoStack[2], redoStack[1]>>
  /\ redo(Store).redoStack = <<>>

\* applyPatches throws in undo() called in S
UndoFails(S) ==
  /\ S.canUndo
  /\ S.undoStack # <<>>
  /\ ~applyPatches(DocOf(S), S.undoStack[Len(S.undoStack)].inversePatches).ok

\* applyPatches throws in redo() called in S
RedoFails(S) ==
  /\ S.canRedo
  /\ S.redoStack # <<>>
  /\ ~applyPatches(DocOf(S), S.redoStack[Len(S.redoStack)].patches).ok

\* T is S in all that history tracks, and records again
Unharmed(S, T) ==
  /\ DocOf(T) = DocOf(S)
  /\ T.undoStack = S.undoStack /\ T.redoStack = S.redoStack
  /\ T.canUndo = S.canUndo /\ T.canRedo = S.canRedo
  /\ ~T.ignoreHistory
  /\ \A c \in TreeCalls : Do(T, c, nextId) = Do(S, c, nextId)

\* the store now and after one undo() or redo()
ReplayStates == {Store, undo(Store), redo(Store)}

\* C15: when applying the patches fails in undo() or redo(), elements,
\* rootElementOrder, selectedElementId, the two stacks, canUndo and canRedo
\* are afterwards as before the call and _ignoreHistory is false, so that
\* later mutations are recorded as before.
C15_ReplayFailureHarmless ==
  \A U \in ReplayStates :
    /\ UndoFails(U) => Unharmed(U, undo(U))
    /\ RedoFails(U) => Unharmed(U, redo(U))

\* after a gesture in which elements were created, undone once: the next
\* undo() fails on an entry recorded during the gesture, whose inverse
\* patches name an element that is gone, and leaves all as it is
C15_Witness ==
  /\ Len(undoStack) >= 2
  /\ ~UndoFails(Store)
  /\ UndoFails(undo(Store))
  /\ Unharmed(undo(Store), undo(undo(Store)))

\* C16: setParent(child, newParentId) with a newParentId that is not null
\* and not the id of a live element changes nothing: the child stays where
\* it is, its parentId is unchanged and no history entry is recorded.
C16_SetParentToMissingParent ==
  \A c \in DOMAIN elements, p \in IdArgs \ DOMAIN elements, i \in TargetIndexArgs :
    LET T == setParent(Store, c, p, i)
    IN /\ T.elements = elements
       /\ T.rootElementOrder = rootElementOrder
       /\ T.undoStack = undoStack

\* C17: updateElementStyle, updateElementName, deleteElement and setParent
\* called with an id that is not in the element table leave elements,
\* rootElementOrder, selectedElementId and the two stacks unchanged.
C17_UnknownIdNoOp ==
  \A id \in IdArgs \ DOMAIN elements :
    /\ \A st \in StyleArgs : updateElementStyle(Store, id, st) = Store
    /\ \A nm \in Names : updateElementName(Store, id, nm) = Store
    /\ deleteElement(Store, id) = Store
    /\ \A p \in ParentArgs, i \in TargetIndexArgs : setParent(Store, id, p, i) = Store

\* a state with live elements, a selection and entries on both stacks in
\* which a deleted id is passed to the four operations
C17_Witness ==
  /\ elements # NoElements
  /\ selectedElementId # Null
  /\ undoStack # <<>> /\ redoStack # <<>>
  /\ \E id \in IdArgs \ DOMAIN elements :
       /\ id < nextId
       /\ updateElementStyle(Store, id, [left |-> 1]) = Store
       /\ updateElementName(Store, id, "Box") = Store
       /\ deleteElement(Store, id) = Store
       /\ setParent(Store, id, Null, NoIndex) = Store

\* the list reorderSiblings(parentId, ...) works on, in the store S
SiblingList(S, parentId) == getSiblingList(DocOf(S), parentId)

\* a sits immediately before b in the list
Adjacent(list, a, b) ==
  \E i \in 1..(Len(list) - 1) : list[i] = a /\ list[i + 1] = b

\* C18: for two distinct ids draggedId and targetId of the sibling list L of
\* parentId, reorderSiblings leaves a list of the same length and members,
\* with draggedId immediately before targetId for "before" and immediately
\* after it for "after", the other members in their order; no other list and
\* no parentId changes.
C18_ReorderPlacement ==
  \A p \in ParentArgs, a \in IdArgs, b \in IdArgs, pos \in Positions :
    LET L == SiblingList(Store, p)
        T == reorderSiblings(Store, p, a, b, pos)
        M == SiblingList(T, p)
    IN (a # b /\ Includes(L, a) /\ Includes(L, b)) =>
         /\ Len(M) = Len(L)
         /\ \A x \in IdArgs : Count(M, x) = Count(L, x)
         /\ IF pos = "before" THEN Adjacent(M, a, b) ELSE Adjacent(M, b, a)
         /\ Filter(M, a) = Filter(L, a)
         /\ IF p = Null
            THEN T.elements = elements
            ELSE /\ T.rootElementOrder = rootElementOrder
                 /\ T.elements = [elements EXCEPT ![p].children = M]

\* a root element with two children, the first of which is moved behind
\* the second, and the second before the first
C18_Witness ==
  \E p \in DOMAIN elements, a \in IdArgs, b \in IdArgs :
    /\ Len(elements[p].children) = 2
    /\ elements[p].children = <<a, b>>
    /\ rootElementOrder = <<p>>
    /\ SiblingList(reorderSiblings(Store, p, a, b, "after"), p) = <<b, a>>
    /\ SiblingList(reorderSiblings(Store, p, b, a, "before"), p) = <<b, a>>

C20_ReorderAbsentNoOp ==
  \A p \in ParentArgs, a \in IdArgs, b \in IdArgs, pos \in Positions :
    LET L == SiblingList(Store, p)
    IN (~Includes(L, a) \/ ~Includes(L, b)) =>
         reorderSiblings(Store, p, a, b, pos) = Store

\* a state with a root element, a child of it and a deleted id, where the
\* child is dragged in the root order, the root element among the children,
\* and either under a parent that is not live
C20_Witness ==
  \E r \in DOMAIN elements, c \in DOMAIN elements, g \in IdArgs \ DOMAIN elements :
    /\ rootElementOrder = <<r>>
    /\ elements[r].children = <<c>>
    /\ undoStack # <<>> /\ redoStack # <<>>
    /\ reorderSiblings(Store, Null, c, r, "before") = Store
    /\ reorderSiblings(Store, r, c, r, "after") = Store
    /\ reorderSiblings(Store, g, r, c, "before") = Store

\* the targetIndex arguments of the placement properties: absent, negative,
\* in range and past the end
PlacementIndexArgs == {NoIndex, -1, 0, 1, 2, 5}

\* C21: addElement(e, p, i), with p other than e's own id, inserts e.id into
\* p.children and sets e's parentId to p when p is live, and inserts e.id
\* into rootElementOrder when p is null or not live; the id is inserted at
\* index i when 0 <= i <= length of the list and appended when i is absent,
\* negative or greater than the length; the ids already in the list keep
\* their order.
C21_AddElementPlacement ==
  \A p \in ParentArgs \ {nextId}, i \in PlacementIndexArgs :
    LET T == addElement(Store, nextId, DefaultElement, p, i)
        underParent == p \in DOMAIN elements
        L == IF underParent THEN elements[p].children ELSE rootElementOrder
        M == IF underParent THEN T.elements[p].children ELSE T.rootElementOrder
    IN /\ nextId \in DOMAIN T.elements
       /\ underParent => T.elements[nextId].parentId = p
       /\ M = IF i # NoIndex /\ 0 <= i /\ i <= Len(L)
              THEN SubSeq(L, 1, i) \o <<nextId>> \o SubSeq(L, i + 1, Len(L))
              ELSE Append(L, nextId)

\* the partial styles of the merge property: one key, the other key, both
MergeArgs == StyleArgs \cup {[top |-> 1], [left |-> 2, top |-> 2]}

\* C22: updateElementStyle(id, partial) on a live element gives every key of
\* partial the given value and leaves the other style keys, the element's
\* name, parentId and children, every other element, rootElementOrder and
\* selectedElementId unchanged; of two calls that set the same key the later
\* value wins.
C22_StyleMerge ==
  \A id \in DOMAIN elements, partial \in MergeArgs :
    LET T == updateElementStyle(Store, id, partial)
    IN /\ DOMAIN T.elements = DOMAIN elements
       /\ \A k \in DOMAIN partial : T.elements[id].style[k] = partial[k]
       /\ \A k \in (DOMAIN elements[id].style) \ DOMAIN partial :
            T.elements[id].style[k] = elements[id].style[k]
       /\ DOMAIN T.elements[id].style = (DOMAIN elements[id].style) \cup DOMAIN partial
       /\ T.elements = [elements EXCEPT ![id].style = T.elements[id].style]
       /\ T.rootElementOrder = rootElementOrder
       /\ T.selectedElementId = selectedElementId
       /\ \A later \in MergeArgs :
            \A k \in DOMAIN later :
              updateElementStyle(T, id, later).elements[id].style[k] = later[k]

\* an element whose left was set before, with a selection and a second
\* element: top is merged in and left kept, then left overwritten
C22_Witness ==
  \E id \in DOMAIN elements :
    /\ elements[id].style.left = 1
    /\ selectedElementId # Null
    /\ Cardinality(DOMAIN elements) >= 2
    /\ updateElementStyle(Store, id, [top |-> 1]).elements[id].style
         = [left |-> 1, top |-> 1]
    /\ updateElementStyle(updateElementStyle(Store, id, [top |-> 1]), id, [left |-> 2])
         .elements[id].style = [left |-> 2, top |-> 1]

\* C23: when at endInteraction() the values of elements, rootElementOrder
\* and selectedElementId equal those captured at startInteraction(), the
\* undo stack and the redo stack are unchanged by endInteraction().
C23_NoEntryWhenUnchanged ==
  (isInteractionActive /\ DocOf(Store) = interactionSnapshot)
    => /\ endInteraction(Store).undoStack = undoStack
       /\ endInteraction(Store).redoStack = redoStack

\* C24: the store is either idle (isInteractionActive false and
\* interactionSnapshot null) or active (isInteractionActive true and
\* interactionSnapshot not null); startInteraction() from idle leads to
\* active with a snapshot of the current elements, rootElementOrder and
\* selectedElementId; endInteraction() leads to idle with the snapshot
\* discarded.
C24_InteractionStateMachine ==
  /\ isInteractionActive <=> interactionSnapshot # NoSnapshot
  /\ ~isInteractionActive =>
       /\ startInteraction(Store).isInteractionActive
       /\ startInteraction(Store).interactionSnapshot = DocOf(Store)
  /\ ~endInteraction(Store).isInteractionActive
  /\ endInteraction(Store).interactionSnapshot = NoSnapshot

\* an interaction is active, and its snapshot holds an element and no longer
\* equals the current state
C24_Witness ==
  /\ isInteractionActive
  /\ interactionSnapshot # NoSnapshot
  /\ interactionSnapshot # DocOf(Store)
  /\ interactionSnapshot.elements # NoElements
  /\ endInteraction(Store).interactionSnapshot = NoSnapshot

\* C30: endInteraction() called while no interaction is active leaves
\* elements, rootElementOrder, selectedElementId, the undo stack, the redo
\* stack, canUndo and canRedo as they are, and the store stays idle.
C30_EndWhileIdle ==
  (~isInteractionActive /\ interactionSnapshot = NoSnapshot) =>
    LET T == endInteraction(Store)
    IN /\ DocOf(T) = DocOf(Store)
       /\ T.undoStack = undoStack
       /\ T.redoStack = redoStack
       /\ T.canUndo = canUndo
       /\ T.canRedo = canRedo
       /\ T.collapsedLayers = collapsedLayers
       /\ ~T.isInteractionActive
       /\ T.interactionSnapshot = NoSnapshot

\* idle with both stacks non-empty: an entry pushed or a stack cleared by
\* endInteraction would show
C30_Witness ==
  /\ ~isInteractionActive
  /\ interactionSnapshot = NoSnapshot
  /\ undoStack # <<>>
  /\ redoStack # <<>>
  /\ endInteraction(Store).undoStack = undoStack

\* C25: toggleLayerCollapse(id) adds id to collapsedLayers when it is absent
\* and removes it when it is present, so that two toggles of one id restore
\* the set, and leaves elements, rootElementOrder, selectedElementId and
\* both history stacks unchanged; undo(), redo() and endInteraction() leave
\* collapsedLayers unchanged.
C25_CollapsedLayersNotUndoable ==
  /\ \A id \in IdArgs :
       LET T == toggleLayerCollapse(Store, id)
       IN /\ T.collapsedLayers = IF id \in collapsedLayers
                                 THEN collapsedLayers \ {id}
                                 ELSE collapsedLayers \cup {id}
          /\ toggleLayerCollapse(T, id).collapsedLayers = collapsedLayers
          /\ DocOf(T) = DocOf(Store)
          /\ T.undoStack = undoStack
          /\ T.redoStack = redoStack
  /\ undo(Store).collapsedLayers = collapsedLayers
  /\ redo(Store).collapsedLayers = collapsedLayers
  /\ endInteraction(Store).collapsedLayers = collapsedLayers

\* a collapsed layer while an undo that changes the elements is possible
C25_Witness ==
  /\ collapsedLayers # {}
  /\ canUndo
  /\ undo(Store).elements # elements
  /\ undo(Store).collapsedLayers = collapsedLayers
  /\ \E id \in collapsedLayers :
       toggleLayerCollapse(Store, id).collapsedLayers = collapsedLayers \ {id}

\* C26: in every reachable state the descendant walk getAllDescendantIds(id)
\* and the ancestor walk isAncestor(id, other) return for all ids.
C26_WalksTerminate ==
  \A id \in IdArgs :
    /\ ~getAllDescendantIds(id, elements).diverges
    /\ \A other \in IdArgs : isAncestor(id, other, elements) # "diverges"

\* C27: for a live child c and a newParentId that is null or a live element
\* other than c and not below c, setParent(c, newParentId, i), with i absent
\* or an index of the new container, leaves c out of its old container,
\* sets c.parentId to newParentId and puts c exactly once into the new
\* container (the children of newParentId, or rootElementOrder when null),
\* at index i, or at the end when i is absent; c is otherwise unchanged, as
\* are the elements below c and every element other than c, the old parent
\* and the new parent; exactly one history entry is recorded.
C27_SetParentAccepted ==
  \A c \in DOMAIN elements :
    \A newParentId \in ((DOMAIN elements) \cup {Null}) \ {c}, i \in PlacementIndexArgs :
      LET T == setParent(Store, c, newParentId, i)
          oldParentId == elements[c].parentId
          before == IF newParentId = Null THEN rootElementOrder
                    ELSE elements[newParentId].children
          oldList == IF oldParentId = Null THEN T.rootElementOrder
                     ELSE IF oldParentId \in DOMAIN T.elements
                          THEN T.elements[oldParentId].children
                          ELSE <<>>
          newList == IF newParentId = Null THEN T.rootElementOrder
                     ELSE T.elements[newParentId].children
      IN (/\ newParentId \notin Descendants(c, elements)
          /\ i # NoIndex => (0 <= i /\ i <= Len(Filter(before, c))))
         => /\ DOMAIN T.elements = DOMAIN elements
            /\ T.elements[c] = [elements[c] EXCEPT !.parentId = newParentId]
            /\ oldParentId # newParentId => ~Includes(oldList, c)
            /\ Count(newList, c) = 1
            /\ i = NoIndex => newList[Len(newList)] = c
            /\ i # NoIndex => (i + 1 \in 1..Len(newList) /\ newList[i + 1] = c)
            /\ \A e \in (DOMAIN elements) \ {c, oldParentId, newParentId} :
                 T.elements[e] = elements[e]
            /\ \A e \in Descendants(c, elements) \cap DOMAIN elements :
                 T.elements[e] = elements[e]
            /\ Len(T.undoStack) = Len(undoStack) + 1
            /\ SubSeq(T.undoStack, 1, Len(undoStack)) = undoStack

\* the elements handed to addElement by the frame property: they carry a
\* parentId and a children list of their own
ElementArgs ==
  {[DefaultElement EXCEPT !.parentId = q, !.children = ch] :
     q \in ParentArgs, ch \in {<<>>, <<1>>}}

\* C28: addElement(e, p, i) stores the new record with children equal to
\* the empty list and parentId equal to p, whatever parentId and children e
\* carries, and leaves selectedElementId, collapsedLayers and every
\* existing element other than p unchanged.
C28_AddElementFrame ==
  \A e \in ElementArgs, p \in ParentArgs, i \in TargetIndexArgs :
    LET T == addElement(Store, nextId, e, p, i)
    IN /\ DOMAIN T.elements = (DOMAIN elements) \cup {nextId}
       /\ T.elements[nextId].children = <<>>
       /\ T.elements[nextId].parentId = p
       /\ T.selectedElementId = selectedElementId
       /\ T.collapsedLayers = collapsedLayers
       /\ \A x \in (DOMAIN elements) \ {p} : T.elements[x] = elements[x]

\* C29: reorderSiblings with draggedId equal to targetId, an id of the
\* sibling list of parentId, leaves that list as it is, for "before" and for
\* "after".
C29_ReorderOntoItself ==
  \A p \in ParentArgs, a \in IdArgs, pos \in Positions :
    Includes(SiblingList(Store, p), a) =>
      SiblingList(reorderSiblings(Store, p, a, a, pos), p) = SiblingList(Store, p)

\* C31: a startInteraction() called while an interaction is active replaces
\* the snapshot by the state at that call; endInteraction() after one more
\* Tree Operation pushes at most one entry, and when it pushes one, undo()
\* of it gives elements, rootElementOrder and selectedElementId the values
\* they had at the second start, and redo() the values at the end.
C31_NestedStart ==
  isInteractionActive =>
    LET second == startInteraction(Store)
    IN /\ second.isInteractionActive
       /\ second.interactionSnapshot = DocOf(Store)
       /\ \A c \in TreeCalls :
            LET T == Do(second, c, nextId)
                ended == endInteraction(T)
            IN /\ Len(ended.undoStack) <= Len(T.undoStack) + 1
               /\ Len(ended.undoStack) = Len(T.undoStack) + 1 =>
                    /\ DocOf(undo(ended)) = DocOf(Store)
                    /\ DocOf(redo(undo(ended))) = DocOf(T)

\* an active interaction whose snapshot differs from the current state: after
\* a second start and a change of style the entry of the gesture is undone to
\* the state at the second start, which is not the state at the first
C31_Witness ==
  /\ isInteractionActive
  /\ interactionSnapshot # NoSnapshot
  /\ interactionSnapshot # DocOf(Store)
  /\ \E id \in DOMAIN elements :
       LET T == updateElementStyle(startInteraction(Store), id, [left |-> 2])
           ended == endInteraction(T)
       IN /\ T.elements # elements
          /\ Len(ended.undoStack) = Len(undoStack) + 1
          /\ DocOf(undo(ended)) = DocOf(Store)
          /\ DocOf(undo(ended)) # interactionSnapshot

\* C32: _ignoreHistory is false after every operation: in every state
\* between two calls, and after startInteraction, endInteraction, undo and
\* redo, be they successful, without effect or failing, and after every Tree
\* Operation.
C32_IgnoreHistoryReset ==
  /\ ~ignoreHistory
  /\ \A U \in ReplayStates :
       /\ ~undo(U).ignoreHistory
       /\ ~redo(U).ignoreHistory
       /\ ~startInteraction(U).ignoreHistory
       /\ ~endInteraction(U).ignoreHistory
  /\ \A c \in TreeCalls : ~Do(Store, c, nextId).ignoreHistory

\* a state where, after one undo(), the next undo() fails and redo() of the
\* state itself does nothing: the flag is false after each of them
C32_Witness ==
  /\ ~ignoreHistory
  /\ ~canRedo
  /\ UndoFails(undo(Store))
  /\ ~undo(undo(Store)).ignoreHistory
  /\ redo(Store) = Store
  /\ ~startInteraction(undo(Store)).ignoreHistory

====
